---- MODULE Spec2Model ----
(***************************************************************************)
(* ConanCrates package registry: the catalog (Package, PackageVersion,     *)
(* BinaryPackage, Dependency rows), the file storage behind the FileFields,*)
(* the upload handlers (unified upload and the Conan REST adapter), the    *)
(* cascading deletes with their pre_delete cleanup signals, the bundle     *)
(* resolution that replays a binary's stored dependency graph, the direct  *)
(* downloads, the topics, and the upload command of the command-line tool. *)
(*                                                                         *)
(* Strings that the code splits ("name/version#revision") are sequences of *)
(* one-character strings; every other string is an opaque TLA+ string.     *)
(***************************************************************************)
EXTENDS Integers, Sequences, FiniteSets, TLC

\* ------------------------------------------------------------------ bounds
MaxBinaries == 2
MaxFiles == 2
MaxNodes == 2
MaxCount == 2

\* ----------------------------------------------------------------- domains
Names == {<<"z">>, <<"b">>}
Versions == {<<"1">>}
PackageIds == {"abc123", "def456"}
Data == {"d1", "d2", "w1", ""}

NoFile == <<>>

\* extract_conaninfo starts from these and overrides what conaninfo.txt sets
DefaultSettings ==
  [os |-> "Linux", arch |-> "x86_64", compiler |-> "gcc",
   compiler_version |-> "11", build_type |-> "Release"]

WindowsSettings ==
  [os |-> "Windows", arch |-> "x86_64", compiler |-> "msvc",
   compiler_version |-> "193", build_type |-> "Release"]

Settings == {DefaultSettings, WindowsSettings}

\* what the five-line conaninfo.txt inside an uploaded tarball says
extract_conaninfo(binary) ==
  IF binary = "w1" THEN WindowsSettings ELSE DefaultSettings

\* hashlib.sha256 over the chunks of the upload, as a hex digest
sha256 ==
  [d \in Data |-> CASE d = "d1" -> "sha-d1" [] d = "d2" -> "sha-d2"
                     [] d = "" -> "sha-empty" [] OTHER -> "sha-w1"]

\* UploadedFile.size
file_size ==
  [d \in Data |-> CASE d = "d1" -> 10 [] d = "d2" -> 20 [] d = "" -> 0
                     [] OTHER -> 40]

\* hashlib.md5(f"{os}-{arch}-{compiler}-{compiler_version}-{build_type}")[:16]
FallbackPackageId(settings) ==
  IF settings = DefaultSettings THEN "md5-linux" ELSE "md5-windows"

\* ------------------------------------------------------ dependency graphs
\* A stored graph is the JSON object {"graph": {"nodes": {id: node, ...}}};
\* nodes is the dict in its stored order, a node's absent key is Absent.
Absent == "<absent>"

Node(id, ref, package_id) == [id |-> id, ref |-> ref, package_id |-> package_id]

EmptyGraph == [truthy |-> FALSE, nodes |-> <<>>]

GraphOf(nodes) == [truthy |-> TRUE, nodes |-> nodes]

RefZ == <<"z", "/", "1", "#", "r">>
RefB == <<"b", "/", "1">>

GraphZ == GraphOf(<<Node("0", RefB, Absent), Node("1", RefZ, "abc123")>>)

\* a node without package_id, a ref without "/", and a well-formed node
GraphBad ==
  GraphOf(<<Node("0", RefB, Absent), Node("1", RefZ, Absent),
            Node("2", <<"z">>, "abc123"), Node("3", RefZ, "abc123")>>)

\* a root and nothing else
GraphRoot == GraphOf(<<Node("0", RefB, Absent)>>)

\* one dependency that can be uploaded and one that never is
GraphMixed ==
  GraphOf(<<Node("0", RefB, Absent), Node("1", RefZ, "abc123"),
            Node("2", <<"z", "/", "1">>, "fff999")>>)

\* the same binary of z/1 reached through two nodes
GraphTwice ==
  GraphOf(<<Node("0", RefB, Absent), Node("1", RefZ, "abc123"),
            Node("2", <<"z", "/", "1">>, "abc123")>>)

\* the binary of z/1 named three times: under its own reference, under
\* another version and under another package
GraphElsewhere ==
  GraphOf(<<Node("0", RefB, Absent), Node("1", RefZ, "abc123"),
            Node("2", <<"z", "/", "2">>, "abc123"),
            Node("3", <<"b", "/", "1">>, "abc123")>>)

NodeIds == {"0", "1", "2"}

Refs ==
  {<<>>, <<"z">>, <<"z", "/", "1">>, <<"z", "/", "1", "#", "r">>,
   <<"b", "/", "2", "#", "r", "#", "s">>, <<"z", "#", "/", "1">>}

NodePackageIds == {Absent, "", "abc123", "def456"}

Nodes == {Node(id, ref, pid) : id \in NodeIds, ref \in Refs, pid \in NodePackageIds}

\* every graph of at most MaxNodes nodes, each node under its own key
NodeLists ==
  UNION {{nodes \in [1..n -> Nodes] :
            \A i, j \in 1..n : nodes[i].id = nodes[j].id => i = j}
         : n \in 0..MaxNodes}

BoundedGraphs == {EmptyGraph} \cup {GraphOf(nodes) : nodes \in NodeLists}

\* ------------------------------------------------------------ recipe text
\* A conanfile.py, by the attributes parse_conanfile's regexes can find:
\* description is <<>> and license is "" when the text declares none.
\* text is Absent when the request carries no recipe file at all.
Recipe(text, description, license, requires) ==
  [text |-> text, description |-> description, license |-> license,
   requires |-> requires]

NoRecipe == Recipe(Absent, <<>>, "", <<>>)
RecipePlain == Recipe("r1", <<>>, "", <<>>)
RecipeFull == Recipe("r2", <<"zlib library">>, "MIT", <<>>)
RecipeRequires == Recipe("r3", <<>>, "", <<(<<"x">>), RefB>>)
\* a recipe that declares a description and no license
RecipeDescribed == Recipe("r4", <<"compression">>, "", <<>>)
\* a recipe file of zero bytes
EmptyRecipe == Recipe("", <<>>, "", <<>>)

Recipes == {RecipePlain, RecipeFull, RecipeRequires}

parse_conanfile(recipe) ==
  [description |-> recipe.description,
   license |-> IF recipe.license = "" THEN "Unknown" ELSE recipe.license,
   dependencies |-> recipe.requires]

\* the request that was handled last and the answer it got: the HTTP status
\* and the message of the JSON body
Answer(op, status, message, package_name, version, package_id, binary, graph) ==
  [op |-> op, status |-> status, message |-> message, package |-> package_name,
   version |-> version, package_id |-> package_id, binary |-> binary,
   graph |-> graph, deleted |-> <<0, 0, 0, 0>>, recipe |-> NoRecipe]

\* the server handles requests in several workers.  A request that a worker
\* is in the middle of: where it is in its handler, what it was sent, and
\* the model instances it holds in memory (a sequence of none or one row).
Workers == {"w1", "w2"}

IdleRequest ==
  [pc |-> "idle", recipe |-> NoRecipe, content |-> Absent, graph |-> EmptyGraph,
   package_name |-> <<>>, version |-> <<>>, package_id |-> "",
   package |-> <<>>, binary |-> <<>>, served |-> 0]

\* the command-line tool in the middle of cmd_upload: where it is, its
\* packages_to_upload, non_release_packages, existing_packages and
\* missing_packages lists, the index of the package it handles next, the
\* packages whose upload failed, and what cmd_upload returned (-1: nothing yet)
IdleCli ==
  [pc |-> "idle", packages_to_upload |-> <<>>, non_release_packages |-> <<>>,
   existing_packages |-> <<>>, missing_packages |-> <<>>, idx |-> 1,
   uploaded_count |-> 0, failed_packages |-> <<>>, result |-> -1]

\* ------------------------------------------------------------------- state
VARIABLES packages, versions, binaries, dependencies, storage, response,
          inflight, cli, topics

vars ==
  <<packages, versions, binaries, dependencies, storage, response, inflight, cli,
    topics>>

catalog == <<packages, versions, binaries, dependencies>>

Init ==
  /\ packages = {}
  /\ versions = {}
  /\ binaries = <<>>
  /\ dependencies = {}
  /\ storage = {}
  /\ response = Answer("none", 0, "", <<>>, <<>>, "", Absent, EmptyGraph)
  /\ inflight = [w \in Workers |-> IdleRequest]
  /\ cli = IdleCli
  /\ topics = {}

\* ------------------------------------------------------- string helpers
Contains(s, c) == \E i \in 1..Len(s) : s[i] = c

\* index of the first c in s, 0 when there is none
Find(s, c) ==
  IF Contains(s, c)
  THEN CHOOSE i \in 1..Len(s) : s[i] = c /\ \A j \in 1..(i - 1) : s[j] # c
  ELSE 0

\* s.split(c, 1)[0], which is also s.split(c)[0]
SplitHead(s, c) == IF Contains(s, c) THEN SubSeq(s, 1, Find(s, c) - 1) ELSE s

\* s.split(c, 1)[1], for an s that contains c
SplitTail(s, c) == SubSeq(s, Find(s, c) + 1, Len(s))

\* ---------------------------------------------------------- ORM helpers
PackageExists(name) == \E p \in packages : p.name = name

VersionExists(name, version) ==
  \E v \in versions : v.package = name /\ v.version = version

\* positions of the BinaryPackage rows that a filter selects
BinaryIndexes(bins, package_version, package_id) ==
  {i \in 1..Len(bins) : /\ bins[i].package_version = package_version
                        /\ bins[i].package_id = package_id}

NewPackage(name, description, license) ==
  [name |-> name, description |-> description, license |-> license,
   download_count |-> 0]

NewVersion(name, version, recipe_content, description) ==
  [package |-> name, version |-> version, recipe_content |-> recipe_content,
   description |-> description, recipe_file |-> NoFile]

NewBinary(package_version, package_id, settings, sha, size, graph) ==
  [package_version |-> package_version, package_id |-> package_id,
   os |-> settings.os, arch |-> settings.arch, compiler |-> settings.compiler,
   compiler_version |-> settings.compiler_version,
   build_type |-> settings.build_type,
   dependency_graph |-> graph, binary_file |-> NoFile, file_size |-> size,
   rust_crate_file |-> NoFile, sha256 |-> sha, download_count |-> 0]

\* Package.objects.get_or_create(name=..., defaults=...)
GetOrCreatePackage(pkgs, name, description, license) ==
  IF \E p \in pkgs : p.name = name
  THEN pkgs
  ELSE pkgs \cup {NewPackage(name, description, license)}

\* PackageVersion.objects.get_or_create(package=..., version=...)
GetOrCreateVersion(vers, name, version) ==
  IF \E v \in vers : v.package = name /\ v.version = version
  THEN vers
  ELSE vers \cup {NewVersion(name, version, "", <<>>)}

\* the index dropped: package_id is unique only together with its version
PackageIdTakenNoIndex(bins, package_id) == FALSE

\* the unique=True index on BinaryPackage.package_id
PackageIdTaken(bins, package_id) ==
  \E i \in 1..Len(bins) : bins[i].package_id = package_id

\* names of the files the storage holds
StoredNames(files) == {f.name : f \in files}

\* Storage.get_available_name: the requested name, or the name with a
\* suffix that no stored file has yet
AvailableSuffix(files, name) ==
  CHOOSE n \in 0..Cardinality(files) :
    /\ <<name, n>> \notin StoredNames(files)
    /\ \A m \in 0..(n - 1) : <<name, m>> \in StoredNames(files)

\* FieldFile.save(name, content, save=False): the name the content went to
SavedName(files, dir, package_name, version, package_id) ==
  LET name == <<dir, package_name, version, package_id>>
  IN  <<name, AvailableSuffix(files, name)>>

\* Storage.save
StoreFile(files, name, content) ==
  {f \in files : f.name # name} \cup {[name |-> name, content |-> content]}

\* Storage.delete
RemoveFile(files, name) == {f \in files : f.name # name}

\* the save without the line that updates the graph of an existing binary
SaveUploadedBinaryKeepGraph(row, name, sha, size, graph) ==
  [row EXCEPT !.binary_file = name, !.sha256 = sha, !.file_size = size]

\* binary.binary_file.save(...); binary.sha256 = ...; binary.file_size = ...;
\* binary.dependency_graph = ...; binary.save()
SaveUploadedBinary(row, name, sha, size, graph) ==
  [row EXCEPT !.binary_file = name, !.sha256 = sha, !.file_size = size,
              !.dependency_graph = graph]

\* ---------------------------------------------------- unified upload API
\* first requires entry that names "package/version", <<>> when none does
FirstDependency(deps) ==
  IF \E i \in 1..Len(deps) : Contains(deps[i], "/")
  THEN deps[CHOOSE i \in 1..Len(deps) :
              /\ Contains(deps[i], "/")
              /\ \A j \in 1..(i - 1) : ~Contains(deps[j], "/")]
  ELSE <<>>

\* simple_upload.upload_package.  recipe and binary are Absent when the
\* multipart form has no such file, package_id is "" when the form has none,
\* storageOk tells whether the storage backend accepts the write.
IngestRequest(recipe, binary, package_name, version, package_id, graph, storageOk) ==
  /\ IF recipe.text = Absent \/ binary = Absent \/ package_name = <<>> \/ version = <<>>
     THEN /\ response' = [Answer("ingest", 400, "Missing file or field",
                                 package_name, version, package_id, binary, graph)
                          EXCEPT !.recipe = recipe]
          /\ UNCHANGED <<catalog, storage>>
     ELSE
     LET metadata == parse_conanfile(recipe)
         settings == extract_conaninfo(binary)
         created == ~PackageExists(package_name)
         pkgs0 == GetOrCreatePackage(packages, package_name, metadata.description,
                                     metadata.license)
         pkgs1 == IF ~created /\ metadata.description # <<>>
                  THEN {IF p.name = package_name
                        THEN [p EXCEPT !.description = metadata.description,
                                       !.license = metadata.license]
                        ELSE p : p \in pkgs0}
                  ELSE pkgs0
         \* the row exists: recipe_content and description are overwritten
         vers1 == {IF v.package = package_name /\ v.version = version
                   THEN [v EXCEPT !.recipe_content = recipe.text,
                                  !.description = metadata.description]
                   ELSE v : v \in versions}
         pid == IF package_id = "" THEN FallbackPackageId(settings) ELSE package_id
         pv == <<package_name, version>>
         found == BinaryIndexes(binaries, pv, pid)
         bins1 == IF found = {}
                  THEN Append(binaries, NewBinary(pv, pid, settings, sha256[binary],
                                                  file_size[binary], graph))
                  ELSE binaries
         row == CHOOSE i \in 1..Len(bins1) :
                  bins1[i].package_version = pv /\ bins1[i].package_id = pid
         name == SavedName(storage, "binaries", package_name, version, pid)
         bins2 == [bins1 EXCEPT ![row] =
                     SaveUploadedBinary(@, name, sha256[binary], file_size[binary],
                                        graph)]
         dep == FirstDependency(metadata.dependencies)
         dep_name == SplitHead(dep, "/")
         dep_version == SplitTail(dep, "/")
         pkgs2 == GetOrCreatePackage(pkgs1, dep_name, <<"Dependency: ">> \o dep_name,
                                     "Unknown")
         vers2 == GetOrCreateVersion(vers1, dep_name, dep_version)
         Reply(status, message) ==
           [Answer("ingest", status, message, package_name, version, pid, binary,
                   graph) EXCEPT !.recipe = recipe]
     IN
     IF ~VersionExists(package_name, version)
     THEN \* get_or_create passes defaults to a model that has no conan_version
          /\ packages' = pkgs1
          /\ response' = Reply(500, "FieldError")
          /\ UNCHANGED <<versions, binaries, dependencies, storage>>
     ELSE IF found = {} /\ PackageIdTaken(binaries, pid)
     THEN \* IntegrityError from the unique index
          /\ packages' = pkgs1
          /\ versions' = vers1
          /\ response' = Reply(500, "IntegrityError")
          /\ UNCHANGED <<binaries, dependencies, storage>>
     ELSE IF ~storageOk
     THEN \* binary_file.save raises
          /\ found = {} => Len(binaries) < MaxBinaries
          /\ packages' = pkgs1
          /\ versions' = vers1
          /\ binaries' = bins1
          /\ response' = Reply(500, "storage error")
          /\ UNCHANGED <<dependencies, storage>>
     ELSE /\ found = {} => Len(binaries) < MaxBinaries
          /\ Cardinality(storage) < MaxFiles
          /\ binaries' = bins2
          /\ storage' = StoreFile(storage, name, binary)
          /\ UNCHANGED dependencies
          /\ IF dep = <<>>
             THEN /\ packages' = pkgs1
                  /\ versions' = vers1
                  /\ response' = Reply(200, "uploaded successfully")
             ELSE \* Dependency has no field depends_on
                  /\ packages' = pkgs2
                  /\ versions' = vers2
                  /\ response' = Reply(500, "FieldError")

\* a unified upload request from any client but the command-line tool
Ingest(recipe, binary, package_name, version, package_id, graph, storageOk) ==
  /\ UNCHANGED <<inflight, cli, topics>>
  /\ IngestRequest(recipe, binary, package_name, version, package_id, graph,
                   storageOk)

\* ------------------------------------------------- Conan REST API adapter
\* upload_views.upload_recipe.  recipe is what the request carries; the
\* handler reads neither request.FILES nor the body.
UploadRecipe(package_name, package_version, recipe) ==
  /\ UNCHANGED <<inflight, cli, topics>>
  /\ packages' = GetOrCreatePackage(packages, package_name,
                                    <<"Package ">> \o package_name, "Unknown")
  /\ versions' = GetOrCreateVersion(versions, package_name, package_version)
  /\ response' = [Answer("upload_recipe", 200, "uploaded successfully",
                         package_name, package_version, "", Absent, EmptyGraph)
                  EXCEPT !.recipe = recipe]
  /\ UNCHANGED <<binaries, dependencies, storage>>

\* upload_views.upload_package.  file is Absent when request.FILES has none.
UploadBinary(package_name, package_version, package_id, file, storageOk) ==
  /\ UNCHANGED <<inflight, cli, topics>>
  /\ LET pv == <<package_name, package_version>>
         found == BinaryIndexes(binaries, pv, package_id)
         bins1 == IF found = {}
                  THEN Append(binaries, NewBinary(pv, package_id, DefaultSettings,
                                                  "", 0, EmptyGraph))
                  ELSE binaries
         row == CHOOSE i \in 1..Len(bins1) :
                  /\ bins1[i].package_version = pv
                  /\ bins1[i].package_id = package_id
         name == SavedName(storage, "binaries", package_name, package_version,
                           package_id)
         Reply(status, message) ==
           Answer("upload_binary", status, message, package_name, package_version,
                  package_id, file, EmptyGraph)
     IN
     IF ~PackageExists(package_name) \/ ~VersionExists(package_name, package_version)
     THEN \* Http404 is an Exception: the handler's except clause answers 500
          /\ response' = Reply(500, "Http404")
          /\ UNCHANGED <<catalog, storage>>
     ELSE IF found = {} /\ PackageIdTaken(binaries, package_id)
     THEN /\ response' = Reply(500, "IntegrityError")
          /\ UNCHANGED <<catalog, storage>>
     ELSE IF file = Absent
     THEN /\ found = {} => Len(binaries) < MaxBinaries
          /\ binaries' = bins1
          /\ response' = Reply(400, "No file provided")
          /\ UNCHANGED <<packages, versions, dependencies, storage>>
     ELSE IF ~storageOk
     THEN /\ found = {} => Len(binaries) < MaxBinaries
          /\ binaries' = bins1
          /\ response' = Reply(500, "storage error")
          /\ UNCHANGED <<packages, versions, dependencies, storage>>
     ELSE /\ found = {} => Len(binaries) < MaxBinaries
          /\ Cardinality(storage) < MaxFiles
          /\ binaries' = [bins1 EXCEPT ![row] =
                            SaveUploadedBinary(@, name, sha256[file],
                                               file_size[file], @.dependency_graph)]
          /\ storage' = StoreFile(storage, name, file)
          /\ response' = Reply(200, "uploaded successfully")
          /\ UNCHANGED <<packages, versions, dependencies>>

\* ------------------------------------------------- catalog administration
\* PackageVersionAdmin: the change form's recipe_file field
AdminSetRecipeFile(package_name, version, text, storageOk) ==
  /\ UNCHANGED <<inflight, cli, topics>>
  /\ VersionExists(package_name, version)
  /\ Cardinality(storage) < MaxFiles
  /\ storageOk
  /\ LET name == SavedName(storage, "recipes", package_name, version, "")
     IN  /\ versions' = {IF v.package = package_name /\ v.version = version
                         THEN [v EXCEPT !.recipe_file = name] ELSE v
                         : v \in versions}
         /\ storage' = StoreFile(storage, name, text)
  /\ response' = Answer("admin_recipe_file", 200, "", package_name, version, "",
                        Absent, EmptyGraph)
  /\ UNCHANGED <<packages, binaries, dependencies>>

\* DependencyInline / DependencyAdmin: add a declared requirement
AdminAddDependency(package_name, version, requires_package) ==
  /\ UNCHANGED <<inflight, cli, topics>>
  /\ VersionExists(package_name, version)
  /\ PackageExists(requires_package)
  /\ ~\E d \in dependencies : /\ d.package_version = <<package_name, version>>
                               /\ d.requires_package = requires_package
                               /\ d.dependency_type = "requires"
  /\ dependencies' = dependencies \cup
       {[package_version |-> <<package_name, version>>,
         requires_package |-> requires_package,
         version_requirement |-> ">=1.0.0", dependency_type |-> "requires"]}
  /\ response' = Answer("admin_dependency", 200, "", package_name, version, "",
                        Absent, EmptyGraph)
  /\ UNCHANGED <<packages, versions, binaries, storage>>

\* TopicAdmin: the add and change forms of a Topic, with the packages chosen
\* in the filter_horizontal widget
AdminSaveTopic(name, slug, package_names) ==
  /\ UNCHANGED <<inflight, cli>>
  /\ \A n \in package_names : PackageExists(n)
  /\ \A t \in topics : t.name = name <=> t.slug = slug
  /\ topics' = {t \in topics : t.name # name} \cup
                {[name |-> name, slug |-> slug, packages |-> package_names]}
  /\ response' = Answer("admin_topic", 200, "", <<>>, <<>>, "", Absent, EmptyGraph)
  /\ UNCHANGED <<catalog, storage>>

\* --------------------------------------------- deletes and their signals
\* signals.delete_binary_files: the files of the rows being deleted; a
\* storage error is printed and swallowed, the file stays
delete_binary_files(files, rows, storageOk) ==
  IF storageOk
  THEN {f \in files : \A r \in rows : /\ f.name # r.binary_file
                                       /\ f.name # r.rust_crate_file}
  ELSE files

\* signals.delete_package_version_files
delete_package_version_files(files, rows, storageOk) ==
  IF storageOk
  THEN {f \in files : \A v \in rows : f.name # v.recipe_file}
  ELSE files

\* the foreign key with on_delete=DO_NOTHING
CascadeBinariesDoNothing(bins, vers) == {}

\* on_delete=CASCADE from PackageVersion to its BinaryPackage rows
CascadeBinaries(bins, vers) ==
  LET Gone(b) == \E v \in vers : b.package_version = <<v.package, v.version>>
  IN  {bins[i] : i \in {j \in 1..Len(bins) : Gone(bins[j])}}

\* on_delete=CASCADE from Package to its PackageVersion rows
CascadeVersions(vers, name) == {v \in vers : v.package = name}

\* on_delete=CASCADE from PackageVersion and from Package to Dependency rows
CascadeDependencies(deps, vers, names) ==
  {d \in deps : \/ \E v \in vers : d.package_version = <<v.package, v.version>>
                \/ d.requires_package \in names}

\* a many-to-many field that takes its topics along
DropTopics(tops, names) == {t \in tops : t.packages \cap names = {}}

\* the rows of the table behind Topic.packages go with their Package, the
\* Topic rows stay
DropAssociations(tops, names) ==
  {[t EXCEPT !.packages = @ \ names] : t \in tops}

RemoveBinaries(bins, gone) ==
  LET Keep(b) == b \notin gone IN SelectSeq(bins, Keep)

\* Model.delete(): the collector gathers the rows, the pre_delete signals
\* run, the rows go in one transaction; the answer is delete()'s row counts
DeleteRows(op, goneNames, goneVersions, goneBinaries, storageOk, name, version, package_id) ==
  /\ UNCHANGED <<inflight, cli>>
  /\ topics' = DropAssociations(topics, goneNames)
  /\ LET goneDependencies == CascadeDependencies(dependencies, goneVersions, goneNames)
     IN
     /\ storage' = delete_package_version_files(
                     delete_binary_files(storage, goneBinaries, storageOk),
                     goneVersions, storageOk)
     /\ packages' = {p \in packages : p.name \notin goneNames}
     /\ versions' = versions \ goneVersions
     /\ binaries' = RemoveBinaries(binaries, goneBinaries)
     /\ dependencies' = dependencies \ goneDependencies
     /\ response' = [Answer(op, 200, "", name, version, package_id, Absent, EmptyGraph)
                     EXCEPT !.deleted = <<Cardinality(goneNames),
                                          Cardinality(goneVersions),
                                          Cardinality(goneBinaries),
                                          Cardinality(goneDependencies)>>]

\* Package.delete()
DeletePackage(name, storageOk) ==
  /\ PackageExists(name)
  /\ LET goneVersions == CascadeVersions(versions, name)
     IN  DeleteRows("delete_package", {name}, goneVersions,
                    CascadeBinaries(binaries, goneVersions), storageOk,
                    name, <<>>, "")

\* PackageVersion.delete()
DeleteVersion(name, version, storageOk) ==
  /\ VersionExists(name, version)
  /\ LET goneVersions == {v \in versions : v.package = name /\ v.version = version}
     IN  DeleteRows("delete_version", {}, goneVersions,
                    CascadeBinaries(binaries, goneVersions), storageOk,
                    name, version, "")

\* BinaryPackage.delete()
DeleteBinary(i, storageOk) ==
  /\ i \in 1..Len(binaries)
  /\ DeleteRows("delete_binary", {}, {}, {binaries[i]}, storageOk,
                binaries[i].package_version[1], binaries[i].package_version[2],
                binaries[i].package_id)

\* ------------------------------------------------- stored graph replay
\* the replay without dep_version_with_hash.split('#')[0]
GraphTriplesKeepRevision(graph) ==
  LET Kept(node) == node.id # "0" /\ Contains(node.ref, "/")
      kept == SelectSeq(graph.nodes, Kept)
  IN  IF ~graph.truthy \/ kept = <<>>
      THEN <<>>
      ELSE [k \in 1..Len(kept) |->
             <<SplitHead(kept[k].ref, "/"), SplitTail(kept[k].ref, "/"),
               IF kept[k].package_id = Absent THEN "unknown"
               ELSE kept[k].package_id>>]

\* the loop head of bundle_preview and download_bundle: for every node but
\* the root, with a "/" in its ref, the (name, version, package_id) that is
\* looked up
GraphTriples(graph) ==
  LET Kept(node) == node.id # "0" /\ Contains(node.ref, "/")
      kept == SelectSeq(graph.nodes, Kept)
  IN  IF ~graph.truthy \/ kept = <<>>
      THEN <<>>
      ELSE [k \in 1..Len(kept) |->
             <<SplitHead(kept[k].ref, "/"),
               SplitHead(SplitTail(kept[k].ref, "/"), "#"),
               IF kept[k].package_id = Absent THEN "unknown"
               ELSE kept[k].package_id>>]

\* conancrates.extract_dependencies_from_graph: (package_ref, package_id)
extract_dependencies_from_graph(graph) ==
  LET Kept(node) == /\ node.id # "0"
                    /\ Contains(node.ref, "/")
                    /\ node.package_id \notin {Absent, ""}
      kept == SelectSeq(graph.nodes, Kept)
  IN  IF ~graph.truthy \/ kept = <<>>
      THEN <<>>
      ELSE [k \in 1..Len(kept) |->
             <<SplitHead(kept[k].ref, "#"), kept[k].package_id>>]

\* BinaryPackage.get_config_string
get_config_string(b) ==
  <<b.os, b.arch, b.compiler, b.compiler_version, b.build_type>>

\* package_version.binaries.filter(os=..., arch=..., ...), newest first
MatchingBinaries(package_name, version, platform) ==
  {i \in 1..Len(binaries) :
     /\ binaries[i].package_version = <<package_name, version>>
     /\ binaries[i].os = platform.os
     /\ binaries[i].arch = platform.arch
     /\ binaries[i].compiler = platform.compiler
     /\ binaries[i].compiler_version = platform.compiler_version
     /\ binaries[i].build_type = platform.build_type}

\* .first() under an ascending ordering
FirstBinaryOldest(indexes) == CHOOSE i \in indexes : \A j \in indexes : i <= j

\* .first() under Meta.ordering = ['-created_at']
FirstBinary(indexes) == CHOOSE i \in indexes : \A j \in indexes : j <= i

\* the lookup by package_id alone
DependencyBinariesByIdOnly(triple) ==
  {i \in 1..Len(binaries) : binaries[i].package_id = triple[3]}

\* BinaryPackage.objects.get(package_version__package__name=...,
\* package_version__version=..., package_id=...)
DependencyBinaries(triple) ==
  {i \in 1..Len(binaries) :
     /\ binaries[i].package_version = <<triple[1], triple[2]>>
     /\ binaries[i].package_id = triple[3]}

MainEntry(b, package_name, version) ==
  [package |-> package_name, version |-> version, type |-> "main",
   package_id |-> b.package_id, config |-> get_config_string(b),
   size |-> b.file_size, note |-> ""]

\* the entry of one graph node: of the catalog row, or a note that the
\* dependency is missing
DependencyEntry(triple) ==
  LET found == DependencyBinaries(triple)
  IN  IF found # {}
      THEN [package |-> triple[1], version |-> triple[2], type |-> "dependency",
            package_id |-> triple[3],
            config |-> get_config_string(binaries[CHOOSE i \in found : TRUE]),
            size |-> binaries[CHOOSE i \in found : TRUE].file_size,
            note |-> ""]
      ELSE [package |-> triple[1], version |-> triple[2], type |-> "dependency",
            package_id |-> triple[3], config |-> <<"Unknown">>, size |-> 0,
            note |-> "Missing dependency"]

\* preview_data['files']
ResolutionPlan(b, package_name, version) ==
  LET triples == GraphTriples(b.dependency_graph)
  IN  <<MainEntry(b, package_name, version)>> \o
      (IF triples = <<>> THEN <<>>
       ELSE [k \in 1..Len(triples) |-> DependencyEntry(triples[k])])

RECURSIVE SumSizes(_)
SumSizes(entries) ==
  IF entries = <<>> THEN 0 ELSE Head(entries).size + SumSizes(Tail(entries))

\* counting the entries of missing dependencies too
FoundOrMissing(entries) == entries

\* the entries appended in the try branch: the main binary and the
\* dependencies the catalog has
Found(entries) == LET Has(e) == e.note = "" IN SelectSeq(entries, Has)

BundleAnswer(op, status, package_name, version, platform, files, total_size, file_count, archive) ==
  [op |-> op, status |-> status, package |-> package_name, version |-> version,
   platform |-> platform, files |-> files, total_size |-> total_size,
   file_count |-> file_count, archive |-> archive,
   \* neither answer has a key that lists the binaries of the version
   binaries |-> <<>>]

\* a preview that counts a download of the main binary, as download_binary
\* does
BundlePreviewCounting(package_name, version, platform) ==
  /\ UNCHANGED <<inflight, cli, topics>>
  /\ LET matching == MatchingBinaries(package_name, version, platform)
         files == ResolutionPlan(binaries[FirstBinary(matching)], package_name, version)
     IN
     /\ UNCHANGED <<packages, versions, dependencies, storage>>
     /\ IF ~PackageExists(package_name) \/ ~VersionExists(package_name, version)
           \/ matching = {}
        THEN /\ response' = BundleAnswer("preview", 404, package_name, version,
                                         platform, <<>>, 0, 0, <<>>)
             /\ UNCHANGED binaries
        ELSE /\ response' = BundleAnswer("preview", 200, package_name, version,
                                         platform, files, SumSizes(Found(files)),
                                         Len(Found(files)), <<>>)
             /\ binaries' = [binaries EXCEPT ![FirstBinary(matching)].download_count
                                               = @ + 1]

\* download_views.bundle_preview
BundlePreview(package_name, version, platform) ==
  /\ UNCHANGED <<inflight, cli, topics>>
  /\ LET matching == MatchingBinaries(package_name, version, platform)
         files == ResolutionPlan(binaries[FirstBinary(matching)], package_name, version)
     IN
     /\ UNCHANGED <<catalog, storage>>
     /\ IF ~PackageExists(package_name) \/ ~VersionExists(package_name, version)
        THEN response' = BundleAnswer("preview", 404, package_name, version, platform,
                                      <<>>, 0, 0, <<>>)
        ELSE IF matching = {}
        THEN \* 'error': "No binary found ...", resolution_method 'error'
             response' = BundleAnswer("preview", 404, package_name, version, platform,
                                      <<>>, 0, 0, <<>>)
        ELSE response' = BundleAnswer("preview", 200, package_name, version, platform,
                                      files, SumSizes(Found(files)),
                                      Len(Found(files)), <<>>)

\* the directory download_bundle writes for one bundled binary: the recipe
\* of its version and the content read from its binary file
ArchiveEntry(entry) ==
  LET b == binaries[CHOOSE i \in DependencyBinaries(
                      <<entry.package, entry.version, entry.package_id>>) : TRUE]
      recipes == {v.recipe_content : v \in {w \in versions :
                    w.package = entry.package /\ w.version = entry.version}}
      contents == {f.content : f \in {g \in storage : g.name = b.binary_file}}
  IN  [dir |-> <<entry.package, entry.version>>,
       package_id |-> entry.package_id,
       recipe |-> recipes \ {""},
       binary |-> IF b.binary_file = NoFile THEN {}
                  ELSE IF contents = {} THEN {"ERROR.txt"} ELSE contents]

\* download_bundle's entry of the main binary; its entries have no 'size'
\* key
BundleMainEntry(b, package_name, version) ==
  [package |-> package_name, version |-> version, type |-> "main",
   package_id |-> b.package_id, config |-> get_config_string(b),
   size |-> Absent, note |-> ""]

\* download_bundle's entry of one graph node
BundleDependencyEntry(triple) ==
  LET found == DependencyBinaries(triple)
  IN  IF found # {}
      THEN [package |-> triple[1], version |-> triple[2], type |-> "dependency",
            package_id |-> triple[3],
            config |-> get_config_string(binaries[CHOOSE i \in found : TRUE]),
            size |-> Absent, note |-> ""]
      ELSE [package |-> triple[1], version |-> triple[2], type |-> "dependency",
            package_id |-> triple[3], config |-> <<"Unknown">>, size |-> Absent,
            note |-> "Missing dependency - not included in bundle"]

\* a manifest that lists only what the archive holds
BundleContentsFoundOnly(b, package_name, version) ==
  LET triples == GraphTriples(b.dependency_graph)
      Has(triple) == DependencyBinaries(triple) # {}
      found == SelectSeq(triples, Has)
  IN  <<BundleMainEntry(b, package_name, version)>> \o
      (IF found = <<>> THEN <<>>
       ELSE [k \in 1..Len(found) |-> BundleDependencyEntry(found[k])])

\* bundle_metadata['contents'], written to bundle_info.json
BundleContents(b, package_name, version) ==
  LET triples == GraphTriples(b.dependency_graph)
  IN  <<BundleMainEntry(b, package_name, version)>> \o
      (IF triples = <<>> THEN <<>>
       ELSE [k \in 1..Len(triples) |-> BundleDependencyEntry(triples[k])])

\* download_views.download_bundle
DownloadBundle(package_name, version, platform) ==
  /\ UNCHANGED <<inflight, cli, topics>>
  /\ LET matching == MatchingBinaries(package_name, version, platform)
         contents == BundleContents(binaries[FirstBinary(matching)], package_name,
                                    version)
         bundled == Found(contents)
     IN
     /\ UNCHANGED <<catalog, storage>>
     /\ IF ~PackageExists(package_name) \/ ~VersionExists(package_name, version)
        THEN response' = BundleAnswer("bundle", 404, package_name, version, platform,
                                      <<>>, 0, 0, <<>>)
        ELSE IF matching = {}
        THEN response' = BundleAnswer("bundle", 404, package_name, version, platform,
                                      <<>>, 0, 0, <<>>)
        ELSE response' = BundleAnswer("bundle", 200, package_name, version, platform,
                                      contents, 0, 0,
                                      [k \in 1..Len(bundled) |-> ArchiveEntry(bundled[k])])

\* ------------------------------------- requests handled side by side
\* Model.save() writing only the file, the checksum and the size
SaveInstanceFileOnly(bins, instance) ==
  [i \in 1..Len(bins) |->
     IF bins[i].package_id = instance.package_id
     THEN [bins[i] EXCEPT !.binary_file = instance.binary_file,
                          !.sha256 = instance.sha256,
                          !.file_size = instance.file_size]
     ELSE bins[i]]

\* Model.save() of a BinaryPackage instance: one UPDATE that sets every
\* column of the row to what the instance holds in memory
SaveInstance(bins, instance) ==
  [i \in 1..Len(bins) |->
     IF bins[i].package_id = instance.package_id THEN instance ELSE bins[i]]

\* Model.save() of a Package instance
SavePackage(pkgs, instance) ==
  {IF p.name = instance.name THEN instance ELSE p : p \in pkgs}

\* simple_upload.upload_package up to Package.objects.get_or_create, for a
\* request with both files whose package and version exist and whose recipe
\* has no requires (the other requests end as Ingest describes)
IngestBegin(w, recipe, binary, package_name, version, package_id, graph) ==
  /\ inflight[w].pc = "idle"
  /\ UNCHANGED <<cli, topics>>
  /\ recipe.text # Absent /\ binary # Absent
  /\ FirstDependency(parse_conanfile(recipe).dependencies) = <<>>
  /\ PackageExists(package_name) /\ VersionExists(package_name, version)
  /\ inflight' =
       [inflight EXCEPT ![w] =
          [@ EXCEPT !.pc = "ingest_package", !.recipe = recipe,
                    !.content = binary, !.graph = graph,
                    !.package_name = package_name, !.version = version,
                    !.package_id = IF package_id = ""
                                   THEN FallbackPackageId(extract_conaninfo(binary))
                                   ELSE package_id,
                    !.package = <<CHOOSE p \in packages : p.name = package_name>>,
                    !.binary = <<>>]]
  /\ UNCHANGED <<catalog, storage, response>>

\* package.save() when the recipe has a description, then the get_or_create
\* and save() of the PackageVersion
IngestSavePackage(w) ==
  LET r == inflight[w]
      metadata == parse_conanfile(r.recipe)
      instance == [r.package[1] EXCEPT !.description = metadata.description,
                                       !.license = metadata.license]
  IN
  /\ r.pc = "ingest_package"
  /\ UNCHANGED <<cli, topics>>
  /\ packages' = IF metadata.description # <<>>
                 THEN SavePackage(packages, instance)
                 ELSE packages
  /\ versions' = {IF v.package = r.package_name /\ v.version = r.version
                  THEN [v EXCEPT !.recipe_content = r.recipe.text,
                                 !.description = metadata.description]
                  ELSE v : v \in versions}
  /\ inflight' = [inflight EXCEPT ![w].pc = "ingest_binary"]
  /\ UNCHANGED <<binaries, dependencies, storage, response>>

\* BinaryPackage.objects.get_or_create: the row that is there, or a new one
\* with the defaults; the unique index makes the two cases one step
IngestGetOrCreateBinary(w) ==
  LET r == inflight[w]
      pv == <<r.package_name, r.version>>
      found == BinaryIndexes(binaries, pv, r.package_id)
      bins1 == IF found = {}
               THEN Append(binaries,
                           NewBinary(pv, r.package_id, extract_conaninfo(r.content),
                                     sha256[r.content], file_size[r.content],
                                     r.graph))
               ELSE binaries
      row == CHOOSE i \in 1..Len(bins1) :
               bins1[i].package_version = pv /\ bins1[i].package_id = r.package_id
  IN
  /\ r.pc = "ingest_binary"
  /\ UNCHANGED <<cli, topics>>
  /\ IF found = {} /\ PackageIdTaken(binaries, r.package_id)
     THEN /\ response' = [Answer("ingest", 500, "IntegrityError", r.package_name,
                                 r.version, r.package_id, r.content, r.graph)
                          EXCEPT !.recipe = r.recipe]
          /\ inflight' = [inflight EXCEPT ![w] = [IdleRequest EXCEPT
                                                   !.served = r.served]]
          /\ UNCHANGED binaries
     ELSE /\ found = {} => Len(binaries) < MaxBinaries
          /\ binaries' = bins1
          /\ inflight' = [inflight EXCEPT ![w].pc = "ingest_file",
                                          ![w].binary = <<bins1[row]>>]
          /\ UNCHANGED response
  /\ UNCHANGED <<packages, versions, dependencies, storage>>

\* binary.binary_file.save(..., save=False) and the three assignments to
\* the instance
IngestStoreFile(w) ==
  LET r == inflight[w]
      name == SavedName(storage, "binaries", r.package_name, r.version,
                        r.package_id)
  IN
  /\ r.pc = "ingest_file"
  /\ UNCHANGED <<cli, topics>>
  /\ Cardinality(storage) < MaxFiles
  /\ storage' = StoreFile(storage, name, r.content)
  /\ inflight' =
       [inflight EXCEPT ![w].pc = "ingest_save",
                        ![w].binary = <<SaveUploadedBinary(
                                          r.binary[1], name, sha256[r.content],
                                          file_size[r.content], r.graph)>>]
  /\ UNCHANGED <<catalog, response>>

\* binary.save() and the answer
IngestSaveBinary(w) ==
  LET r == inflight[w] IN
  /\ r.pc = "ingest_save"
  /\ UNCHANGED <<cli, topics>>
  /\ binaries' = SaveInstance(binaries, r.binary[1])
  /\ response' = [Answer("ingest", 200, "uploaded successfully", r.package_name,
                         r.version, r.package_id, r.content, r.graph)
                  EXCEPT !.recipe = r.recipe]
  /\ inflight' = [inflight EXCEPT ![w] = [IdleRequest EXCEPT !.served = r.served]]
  /\ UNCHANGED <<packages, versions, dependencies, storage>>

\* download_views.download_binary, the three get_object_or_404
DownloadBegin(w, package_name, version, binary_id) ==
  LET found == BinaryIndexes(binaries, <<package_name, version>>, binary_id)
      package == CHOOSE p \in packages : p.name = package_name
      binary == binaries[CHOOSE i \in found : TRUE]
  IN
  /\ inflight[w].pc = "idle"
  /\ UNCHANGED <<cli, topics>>
  /\ UNCHANGED <<catalog, storage>>
  /\ IF ~PackageExists(package_name) \/ ~VersionExists(package_name, version)
        \/ found = {}
     THEN /\ response' = Answer("download", 404, "Not Found", package_name,
                                version, binary_id, Absent, EmptyGraph)
          /\ UNCHANGED <<inflight, cli, topics>>
     ELSE /\ inflight[w].served < MaxCount
          /\ inflight' =
               [inflight EXCEPT ![w] =
                  [@ EXCEPT !.pc = "download_binary",
                            !.package_name = package_name, !.version = version,
                            !.package_id = binary_id,
                            !.package = <<package>>, !.binary = <<binary>>]]
          /\ UNCHANGED response

\* binary.download_count += 1; binary.save()
DownloadSaveBinary(w) ==
  LET r == inflight[w]
      instance == [r.binary[1] EXCEPT !.download_count = @ + 1]
  IN
  /\ r.pc = "download_binary"
  /\ UNCHANGED <<cli, topics>>
  /\ binaries' = SaveInstance(binaries, instance)
  /\ inflight' = [inflight EXCEPT ![w].pc = "download_package",
                                  ![w].binary = <<instance>>]
  /\ UNCHANGED <<packages, versions, dependencies, storage, response>>

\* package.download_count += 1; package.save(); then the file is served,
\* or the placeholder when the binary has none
DownloadSavePackage(w) ==
  LET r == inflight[w]
      instance == [r.package[1] EXCEPT !.download_count = @ + 1]
      contents == {f.content : f \in {g \in storage :
                                        g.name = r.binary[1].binary_file}}
  IN
  /\ r.pc = "download_package"
  /\ UNCHANGED <<cli, topics>>
  /\ packages' = SavePackage(packages, instance)
  /\ response' =
       IF r.binary[1].binary_file = NoFile
       THEN Answer("download", 404, "No file uploaded yet", r.package_name,
                   r.version, r.package_id, Absent, EmptyGraph)
       ELSE IF contents = {}
       THEN Answer("download", 500, "Error reading file", r.package_name,
                   r.version, r.package_id, Absent, EmptyGraph)
       ELSE Answer("download", 200, "", r.package_name, r.version, r.package_id,
                   CHOOSE c \in contents : TRUE, EmptyGraph)
  /\ inflight' = [inflight EXCEPT ![w] = [IdleRequest EXCEPT
                                           !.served = r.served + 1]]
  /\ UNCHANGED <<versions, binaries, dependencies, storage>>

\* what download_binary answers once the rows are found: the file, an error
\* when the storage cannot open it, the placeholder when the row has none
ServeBinary(binary, package_name, version, binary_id) ==
  LET contents == {f.content : f \in {g \in storage : g.name = binary.binary_file}}
  IN  IF binary.binary_file = NoFile
      THEN Answer("download", 404, "No file uploaded yet", package_name, version,
                  binary_id, Absent, EmptyGraph)
      ELSE IF contents = {}
      THEN Answer("download", 500, "Error reading file", package_name, version,
                  binary_id, Absent, EmptyGraph)
      ELSE Answer("download", 200, "", package_name, version, binary_id,
                  CHOOSE c \in contents : TRUE, EmptyGraph)

\* download_views.download_binary handled by one worker alone: the three
\* get_object_or_404, then both counters incremented and saved
CountDownload(package_name, version, binary_id) ==
  LET found == BinaryIndexes(binaries, <<package_name, version>>, binary_id)
      row == CHOOSE i \in found : TRUE
      package == CHOOSE p \in packages : p.name = package_name
  IN
  /\ UNCHANGED <<inflight, versions, dependencies, storage, topics>>
  /\ IF ~PackageExists(package_name) \/ ~VersionExists(package_name, version)
        \/ found = {}
     THEN UNCHANGED <<packages, binaries>>
     ELSE /\ binaries[row].download_count < MaxCount
          /\ binaries' = SaveInstance(binaries,
                                      [binaries[row] EXCEPT !.download_count = @ + 1])
          /\ packages' = SavePackage(packages,
                                     [package EXCEPT !.download_count = @ + 1])

\* the HTTP response of download_binary
DownloadAnswer(package_name, version, binary_id) ==
  LET found == BinaryIndexes(binaries, <<package_name, version>>, binary_id)
  IN  IF ~PackageExists(package_name) \/ ~VersionExists(package_name, version)
         \/ found = {}
      THEN Answer("download", 404, "Not Found", package_name, version, binary_id,
                  Absent, EmptyGraph)
      ELSE ServeBinary(binaries[CHOOSE i \in found : TRUE], package_name, version,
                       binary_id)

\* a GET of the download URL
DownloadBinary(package_name, version, binary_id) ==
  /\ UNCHANGED <<cli, topics>>
  /\ CountDownload(package_name, version, binary_id)
  /\ response' = DownloadAnswer(package_name, version, binary_id)

\* conancrates.check_package_exists: requests.head on the download URL of
\* the binary, true when the status is 200.  The view has no method
\* restriction: a HEAD request runs the same body as a GET.
check_package_exists(package_ref, package_id) ==
  LET package_name == SplitHead(package_ref, "/")
      version == SplitTail(package_ref, "/")
  IN  /\ CountDownload(package_name, version, package_id)
      /\ response' =
           [op |-> "check_package_exists", package |-> package_name,
            version |-> version, package_id |-> package_id,
            status |-> DownloadAnswer(package_name, version, package_id).status,
            result |-> (DownloadAnswer(package_name, version, package_id).status
                          = 200)]

\* ------------------------------------------------- the command-line tool
\* str.lower() on one character
Lower(c) ==
  CASE c = "A" -> "a" [] c = "B" -> "b" [] c = "C" -> "c" [] c = "D" -> "d"
    [] c = "E" -> "e" [] c = "H" -> "h" [] c = "L" -> "l" [] c = "N" -> "n"
    [] c = "O" -> "o" [] c = "P" -> "p" [] c = "R" -> "r" [] c = "S" -> "s"
    [] c = "T" -> "t" [] c = "V" -> "v" [] OTHER -> c

pre_release_markers ==
  <<<<"-", "r", "c">>,
    <<"-", "b", "e", "t", "a">>,
    <<"-", "a", "l", "p", "h", "a">>,
    <<"-", "d", "e", "v">>,
    <<"-", "p", "r", "e">>,
    <<"-", "s", "n", "a", "p", "s", "h", "o", "t">>>>

\* Python's "marker in text" for strings
In(marker, text) ==
  \E i \in 1..(Len(text) - Len(marker) + 1) :
    SubSeq(text, i, i + Len(marker) - 1) = marker

\* the check without version.lower()
is_release_version_case_sensitive(version) ==
  ~\E m \in 1..Len(pre_release_markers) : In(pre_release_markers[m], version)

\* conancrates.is_release_version
is_release_version(version) ==
  LET version_lower == [i \in 1..Len(version) |-> Lower(version[i])]
  IN  ~\E m \in 1..Len(pre_release_markers) : In(pre_release_markers[m], version_lower)

\* cmd_upload, steps 1 to 4: the plan is the package and, with
\* --with-dependencies, the dependencies of its graph; every version of the
\* plan is validated before the server is contacted
CmdUploadValidate(package_ref, package_id, dependency_graph, with_deps) ==
  LET dependencies_ == IF with_deps /\ dependency_graph.truthy
                       THEN extract_dependencies_from_graph(dependency_graph)
                       ELSE <<>>
      packages_to_upload == <<(<<package_ref, package_id>>)>> \o dependencies_
      PreRelease(pkg) == ~is_release_version(SplitTail(pkg[1], "/"))
      pre == SelectSeq(packages_to_upload, PreRelease)
      non_release_packages == [k \in 1..Len(pre) |-> pre[k][1]]
  IN
  /\ cli.pc = "idle"
  /\ cli' = [IdleCli EXCEPT
               !.packages_to_upload = packages_to_upload,
               !.non_release_packages = non_release_packages,
               !.pc = IF non_release_packages # <<>> THEN "done" ELSE "check",
               !.result = IF non_release_packages # <<>> THEN 1 ELSE -1]
  /\ UNCHANGED <<catalog, storage, response, inflight, topics>>

\* cmd_upload, step 5: one check_package_exists per package of the plan;
\* when none is missing cmd_upload returns 0
CmdUploadCheck ==
  LET pkg == cli.packages_to_upload[cli.idx]
      exists == DownloadAnswer(SplitHead(pkg[1], "/"), SplitTail(pkg[1], "/"),
                               pkg[2]).status = 200
      existing_packages == IF exists THEN Append(cli.existing_packages, pkg)
                           ELSE cli.existing_packages
      missing_packages == IF exists THEN cli.missing_packages
                          ELSE Append(cli.missing_packages, pkg)
      last == cli.idx = Len(cli.packages_to_upload)
  IN
  /\ cli.pc = "check"
  /\ check_package_exists(pkg[1], pkg[2])
  /\ cli' = [cli EXCEPT
               !.existing_packages = existing_packages,
               !.missing_packages = missing_packages,
               !.idx = IF last THEN 1 ELSE cli.idx + 1,
               !.pc = IF ~last THEN "check"
                      ELSE IF missing_packages = <<>> THEN "done" ELSE "confirm",
               !.result = IF last /\ missing_packages = <<>> THEN 0 ELSE -1]

\* cmd_upload, step 6: "Proceed with upload? [y/N]"
CmdUploadConfirm(answer) ==
  /\ cli.pc = "confirm"
  /\ cli' = IF answer \in {"y", "yes"}
            THEN [cli EXCEPT !.pc = "upload"]
            ELSE [cli EXCEPT !.pc = "done", !.result = 1]
  /\ UNCHANGED <<catalog, storage, response, inflight, topics>>

\* cmd_upload, steps 7 and 8: upload_single_package for the next missing
\* package.  inCache tells whether the local Conan cache has the recipe and
\* the binary; recipe, binary and graph are what it has.
CmdUploadPackage(inCache, recipe, binary, graph) ==
  LET pkg == cli.missing_packages[cli.idx]
      ok == inCache /\ response'.status = 200
      failed_packages == IF ok THEN cli.failed_packages
                         ELSE Append(cli.failed_packages, pkg)
      last == cli.idx = Len(cli.missing_packages)
  IN
  /\ cli.pc = "upload"
  /\ UNCHANGED <<inflight, topics>>
  /\ IF inCache
     THEN IngestRequest(recipe, binary, SplitHead(pkg[1], "/"),
                        SplitTail(pkg[1], "/"), pkg[2], graph, TRUE)
     ELSE UNCHANGED <<catalog, storage, response>>
  /\ cli' = [cli EXCEPT
               !.uploaded_count = IF ok THEN @ + 1 ELSE @,
               !.failed_packages = failed_packages,
               !.idx = IF last THEN 1 ELSE cli.idx + 1,
               !.pc = IF last THEN "done" ELSE "upload",
               !.result = IF ~last THEN -1
                          ELSE IF failed_packages # <<>> THEN 1 ELSE 0]

\* upload_views.get_recipe_manifest
GetRecipeManifest(package_name, package_version) ==
  /\ UNCHANGED <<inflight, cli, topics, catalog, storage>>
  /\ response' =
       IF ~PackageExists(package_name) \/ ~VersionExists(package_name, package_version)
       THEN Answer("recipe_manifest", 404, "Http404", package_name, package_version,
                   "", Absent, EmptyGraph)
       ELSE Answer("recipe_manifest", 200, "", package_name, package_version, "",
                   Absent, EmptyGraph)

\* the rows of a version as package_version.binaries.all() yields them:
\* newest first
RECURSIVE VersionBinaries(_, _, _)
VersionBinaries(package_name, version, i) ==
  IF i = 0 THEN <<>>
  ELSE (IF binaries[i].package_version = <<package_name, version>>
        THEN <<[os |-> binaries[i].os, arch |-> binaries[i].arch,
                compiler |-> binaries[i].compiler,
                compiler_version |-> binaries[i].compiler_version,
                build_type |-> binaries[i].build_type,
                package_id |-> binaries[i].package_id,
                file_size |-> binaries[i].file_size,
                download_count |-> binaries[i].download_count]>>
        ELSE <<>>) \o VersionBinaries(package_name, version, i - 1)

\* download_views.list_available_binaries
ListAvailableBinaries(package_name, version) ==
  /\ UNCHANGED <<inflight, cli, topics>>
  /\ LET configurations == VersionBinaries(package_name, version, Len(binaries))
         found == PackageExists(package_name) /\ VersionExists(package_name, version)
     IN
     /\ UNCHANGED <<catalog, storage>>
     /\ response' = [op |-> "list_binaries",
                     status |-> IF found /\ configurations # <<>> THEN 200 ELSE 404,
                     package |-> package_name, version |-> version,
                     binaries |-> IF found THEN configurations ELSE <<>>]

\* ------------------------------------------------------ specification
\* The catalog under uploads through both APIs, administration and deletes,
\* over two packages and two package ids, with a storage that works.
Next ==
  \/ \E package_name \in Names, version \in Versions, package_id \in PackageIds :
        Ingest(RecipePlain, "d1", package_name, version, package_id, GraphZ, TRUE)
  \/ \E package_name \in Names, package_version \in Versions :
        UploadRecipe(package_name, package_version, RecipePlain)
  \/ \E package_name \in Names, package_version \in Versions,
        package_id \in PackageIds :
        UploadBinary(package_name, package_version, package_id, "d2", TRUE)
  \/ \E package_name \in Names, version \in Versions :
        \E requires \in Names \ {package_name} :
          AdminAddDependency(package_name, version, requires)
  \/ \E name \in Names : DeletePackage(name, TRUE)
  \/ \E name \in Names, version \in Versions : DeleteVersion(name, version, TRUE)
  \/ \E i \in 1..MaxBinaries : DeleteBinary(i, TRUE)

Spec == Init /\ [][Next]_vars

\* One package with its recipe file and its binaries, deleted at each level
\* of the cascade, with a storage backend that can refuse a delete.
NextCleanup ==
  \/ \E package_id \in PackageIds, binary \in {"d1", "d2"} :
        Ingest(RecipePlain, binary, <<"b">>, <<"1">>, package_id, EmptyGraph, TRUE)
  \/ UploadRecipe(<<"b">>, <<"1">>, RecipePlain)
  \/ AdminSetRecipeFile(<<"b">>, <<"1">>, "r1", TRUE)
  \/ \E storageOk \in BOOLEAN : DeletePackage(<<"b">>, storageOk)
  \/ \E storageOk \in BOOLEAN : DeleteVersion(<<"b">>, <<"1">>, storageOk)
  \/ \E i \in 1..MaxBinaries, storageOk \in BOOLEAN : DeleteBinary(i, storageOk)

SpecCleanup == Init /\ [][NextCleanup]_vars

\* One package and one package id under every kind of upload request: absent
\* files, two payloads, with and without a graph, with a failing storage.
UploadedData == {"d1", "d2", Absent}

NextUpload ==
  \/ \E recipe \in {RecipePlain, NoRecipe}, binary \in UploadedData,
        graph \in {EmptyGraph, GraphZ}, storageOk \in BOOLEAN :
        Ingest(recipe, binary, <<"b">>, <<"1">>, "def456", graph, storageOk)
  \/ UploadRecipe(<<"b">>, <<"1">>, RecipePlain)
  \/ \E file \in UploadedData, storageOk \in BOOLEAN :
        UploadBinary(<<"b">>, <<"1">>, "def456", file, storageOk)

SpecUpload == Init /\ [][NextUpload]_vars

\* Bundle resolution over catalogs built by recipe uploads and ingests
\* of Linux and Windows binaries with empty, complete, partly missing and
\* malformed graphs.
Platforms == {DefaultSettings, WindowsSettings}

BundleGraphs ==
  {EmptyGraph, GraphRoot, GraphMixed, GraphBad, GraphTwice, GraphElsewhere}

NextBundle ==
  \/ \E package_name \in Names : UploadRecipe(package_name, <<"1">>, RecipePlain)
  \/ \E binary \in {"d1", "w1"} :
        Ingest(RecipePlain, binary, <<"z">>, <<"1">>, "abc123", EmptyGraph, TRUE)
  \/ \E package_id \in PackageIds, graph \in BundleGraphs :
        Ingest(RecipePlain, "d1", <<"b">>, <<"1">>, package_id, graph, TRUE)
  \/ \E package_name \in Names, platform \in Platforms :
        BundlePreview(package_name, <<"1">>, platform)
  \/ \E package_name \in Names, platform \in Platforms :
        DownloadBundle(package_name, <<"1">>, platform)
  \/ \E package_name \in Names : ListAvailableBinaries(package_name, <<"1">>)

SpecBundle == Init /\ [][NextBundle]_vars

\* One package and version under recipe uploads and unified uploads whose
\* payloads are missing, empty or present, with and without metadata.
UploadedRecipes ==
  {NoRecipe, EmptyRecipe, RecipePlain, RecipeFull, RecipeDescribed}

NextMetadata ==
  \/ \E recipe \in {RecipePlain, RecipeFull} :
        UploadRecipe(<<"b">>, <<"1">>, recipe)
  \/ \E recipe \in UploadedRecipes, binary \in {"d1", "", Absent} :
        Ingest(recipe, binary, <<"b">>, <<"1">>, "def456", EmptyGraph, TRUE)

SpecMetadata == Init /\ [][NextMetadata]_vars

\* One binary of one version under unified uploads that two workers handle
\* side by side, each handler one statement group at a time.  An upload
\* carries bytes and the graph resolved for them.
RaceUploads == {<<"d1", GraphZ>>, <<"d2", EmptyGraph>>}

NextIngestRace ==
  \/ UploadRecipe(<<"b">>, <<"1">>, RecipePlain)
  \/ \E w \in Workers, u \in RaceUploads, recipe \in {RecipePlain, RecipeFull} :
        IngestBegin(w, recipe, u[1], <<"b">>, <<"1">>, "def456", u[2])
  \/ \E w \in Workers : IngestSavePackage(w)
  \/ \E w \in Workers : IngestGetOrCreateBinary(w)
  \/ \E w \in Workers : IngestStoreFile(w)
  \/ \E w \in Workers : IngestSaveBinary(w)

SpecIngestRace == Init /\ [][NextIngestRace]_vars

\* One binary of one version, uploaded by requests that run alone, under
\* direct downloads that two workers handle side by side.
NextDownloadRace ==
  \/ UploadRecipe(<<"b">>, <<"1">>, RecipePlain)
  \/ \E recipe \in {RecipePlain, RecipeFull} :
        Ingest(recipe, "d1", <<"b">>, <<"1">>, "def456", EmptyGraph, TRUE)
  \/ \E w \in Workers : DownloadBegin(w, <<"b">>, <<"1">>, "def456")
  \/ \E w \in Workers : DownloadSaveBinary(w)
  \/ \E w \in Workers : DownloadSavePackage(w)

SpecDownloadRace == Init /\ [][NextDownloadRace]_vars

\* Requests that name packages, versions and binaries the catalog may not
\* have, against a catalog that holds at most b/1 with one binary.
RequestVersions == {<<"1">>, <<"2">>}

NextNotFound ==
  \/ UploadRecipe(<<"b">>, <<"1">>, RecipePlain)
  \/ Ingest(RecipePlain, "d1", <<"b">>, <<"1">>, "def456", EmptyGraph, TRUE)
  \/ \E package_name \in Names, version \in RequestVersions :
        BundlePreview(package_name, version, DefaultSettings)
  \/ \E package_name \in Names, version \in RequestVersions :
        DownloadBundle(package_name, version, DefaultSettings)
  \/ \E package_name \in Names, version \in RequestVersions,
        binary_id \in PackageIds :
        DownloadBinary(package_name, version, binary_id)
  \/ \E package_name \in Names, version \in RequestVersions,
        package_id \in PackageIds, file \in {"d2", Absent} :
        UploadBinary(package_name, version, package_id, file, TRUE)
  \/ \E package_name \in Names, version \in RequestVersions :
        GetRecipeManifest(package_name, version)

SpecNotFound == Init /\ [][NextNotFound]_vars

\* One run of the command-line upload of b, in release and pre-release
\* versions, alone or with the dependencies of its graph, against a server
\* where recipe uploads and unified uploads of other clients create b/1 and
\* z/1 and their binaries.
CliVersions ==
  {<<"1">>,
   <<"1", "-", "r", "c", "1">>,
   <<"1", "-", "R", "C">>,
   <<"1", "r", "c">>,
   <<"r", "c", "-", "1">>,
   <<"1", "-", "B", "e", "t", "a">>,
   <<"1", "-", "a", "l", "p", "h", "a">>,
   <<"1", "-", "d", "e", "v">>,
   <<"1", "-", "p", "r", "e">>,
   <<"1", "-", "S", "N", "A", "P", "S", "H", "O", "T">>,
   <<"1", "-", "s", "n", "a", "p">>,
   <<"-", "r", "-", "c">>}

\* a graph with a release dependency and one with a pre-release dependency
GraphPreRelease ==
  GraphOf(<<Node("0", RefB, Absent), Node("1", RefZ, "abc123"),
            Node("2", <<"z", "/", "1", "-", "R", "c", "#", "r">>, "fff999")>>)

CliGraphs == {EmptyGraph, GraphZ, GraphPreRelease}

NextCli ==
  \/ \E package_name \in Names : UploadRecipe(package_name, <<"1">>, RecipePlain)
  \/ Ingest(RecipePlain, "d1", <<"z">>, <<"1">>, "abc123", EmptyGraph, TRUE)
  \/ Ingest(RecipePlain, "d2", <<"b">>, <<"1">>, "def456", GraphZ, TRUE)
  \/ \E version \in CliVersions, dependency_graph \in CliGraphs,
        with_deps \in BOOLEAN :
        CmdUploadValidate(<<"b", "/">> \o version, "def456", dependency_graph,
                          with_deps)
  \/ CmdUploadCheck
  \/ \E answer \in {"y", "n"} : CmdUploadConfirm(answer)
  \/ \E inCache \in BOOLEAN : CmdUploadPackage(inCache, RecipePlain, "d1", EmptyGraph)

SpecCli == Init /\ [][NextCli]_vars

\* One package and version under unified uploads whose recipes declare
\* requirements or none, with a storage that can refuse the write.
NextRequires ==
  \/ UploadRecipe(<<"b">>, <<"1">>, RecipePlain)
  \/ \E recipe \in Recipes, binary \in {"d1", "d2"}, storageOk \in BOOLEAN :
        Ingest(recipe, binary, <<"b">>, <<"1">>, "def456", EmptyGraph, storageOk)

SpecRequires == Init /\ [][NextRequires]_vars

\* One binary of one version, uploaded again and again by requests that
\* run alone, while two workers handle direct downloads of it statement
\* group by statement group.
NextDownloadIngestRace ==
  \/ UploadRecipe(<<"b">>, <<"1">>, RecipePlain)
  \/ \E recipe \in {RecipePlain, RecipeFull}, u \in RaceUploads :
        Ingest(recipe, u[1], <<"b">>, <<"1">>, "def456", u[2], TRUE)
  \/ \E w \in Workers : DownloadBegin(w, <<"b">>, <<"1">>, "def456")
  \/ \E w \in Workers : DownloadSaveBinary(w)
  \/ \E w \in Workers : DownloadSavePackage(w)

SpecDownloadIngestRace == Init /\ [][NextDownloadIngestRace]_vars

\* Two packages under unified uploads that carry no package_id, of Linux
\* and Windows binaries.
NextFallback ==
  \/ \E package_name \in Names : UploadRecipe(package_name, <<"1">>, RecipePlain)
  \/ \E package_name \in Names, binary \in {"d1", "d2", "w1"},
        graph \in {EmptyGraph, GraphRoot} :
        Ingest(RecipePlain, binary, package_name, <<"1">>, "", graph, TRUE)

SpecFallback == Init /\ [][NextFallback]_vars

\* Two packages with versions, binaries, requirements on each other and
\* topics, and the delete of a Package.
TopicNames == {"compression", "network"}

NextTopics ==
  \/ \E package_name \in Names : UploadRecipe(package_name, <<"1">>, RecipePlain)
  \/ Ingest(RecipePlain, "d1", <<"z">>, <<"1">>, "abc123", EmptyGraph, TRUE)
  \/ Ingest(RecipePlain, "d2", <<"b">>, <<"1">>, "def456", GraphZ, TRUE)
  \/ \E package_name \in Names : \E requires \in Names \ {package_name} :
        AdminAddDependency(package_name, <<"1">>, requires)
  \/ \E name \in TopicNames, package_names \in SUBSET Names :
        AdminSaveTopic(name, name, package_names)
  \/ \E name \in Names : DeletePackage(name, TRUE)

SpecTopics == Init /\ [][NextTopics]_vars

\* The two graph flattenings, applied to every graph of at most MaxNodes
\* nodes.
InitFlatten ==
  /\ packages = {}
  /\ versions = {}
  /\ binaries = <<>>
  /\ dependencies = {}
  /\ storage = {}
  /\ response \in {[op |-> "graph", graph |-> g, result |-> <<>>] : g \in BoundedGraphs}
  /\ inflight = [w \in Workers |-> IdleRequest]
  /\ cli = IdleCli
  /\ topics = {}

\* the server's replay of a stored graph
ReplayGraph ==
  /\ UNCHANGED <<inflight, cli, topics>>
  /\ response.op = "graph"
  /\ response' = [op |-> "replay", graph |-> response.graph,
                  result |-> GraphTriples(response.graph)]
  /\ UNCHANGED <<catalog, storage>>

\* the client's extract_dependencies_from_graph
ExtractDependencies ==
  /\ UNCHANGED <<inflight, cli, topics>>
  /\ response.op = "graph"
  /\ response' = [op |-> "extract", graph |-> response.graph,
                  result |-> extract_dependencies_from_graph(response.graph)]
  /\ UNCHANGED <<catalog, storage>>

NextFlatten == ReplayGraph \/ ExtractDependencies

SpecFlatten == InitFlatten /\ [][NextFlatten]_vars

\* ------------------------------------------------------------ properties
\* rows of binaries' that have the package_id of row i of binaries
Successors(i) ==
  {j \in 1..Len(binaries') : binaries'[j].package_id = binaries[i].package_id}

PackageIdUnique ==
  \A i, j \in 1..Len(binaries) :
    binaries[i].package_id = binaries[j].package_id => i = j

\* the request names a package_id that a row of another PackageVersion has
TakenElsewhere(r, bins) ==
  \E i \in 1..Len(bins) :
    /\ bins[i].package_id = r.package_id
    /\ bins[i].package_version # <<r.package, r.version>>

\* C1: no two BinaryPackage rows ever have the same package_id, and an
\* upload that names a package_id held by a row of another PackageVersion
\* is answered with an error and leaves the BinaryPackage rows as they were.
C1_PackageIdUnique ==
  /\ []PackageIdUnique
  /\ [][(response'.op \in {"ingest", "upload_binary"}
          /\ TakenElsewhere(response', binaries))
        => (binaries' = binaries /\ response'.status >= 400)]_vars

C1_Witness ==
  /\ response.op \in {"ingest", "upload_binary"}
  /\ response.message = "IntegrityError"
  /\ TakenElsewhere(response, binaries)

\* C2: a successful ingest for a package_id that already has a row leaves
\* exactly one row for it, with the checksum, size and graph of this ingest
\* and a blob reference to the blob this ingest stored; no row refers to
\* the blob the row had before.
C2_ReingestReplaces ==
  [][\A i \in 1..Len(binaries) :
       (/\ response'.op = "ingest"
        /\ response'.status = 200
        /\ binaries[i].package_id = response'.package_id)
       => /\ Cardinality(Successors(i)) = 1
          /\ \A j \in Successors(i) :
               /\ binaries'[j].sha256 = sha256[response'.binary]
               /\ binaries'[j].file_size = file_size[response'.binary]
               /\ binaries'[j].dependency_graph = response'.graph
               /\ [name |-> binaries'[j].binary_file,
                   content |-> response'.binary] \in storage'
               /\ binaries'[j].binary_file \notin StoredNames(storage)
          /\ (binaries[i].binary_file # NoFile
               => \A k \in 1..Len(binaries') :
                    binaries'[k].binary_file # binaries[i].binary_file)]_vars

\* the second ingest of a package_id, with other bytes than the first
C2_Witness ==
  /\ response.op = "ingest"
  /\ response.status = 200
  /\ \E i \in 1..Len(binaries) :
       /\ binaries[i].package_id = response.package_id
       /\ binaries[i].binary_file # NoFile
       /\ \E f \in storage :
            /\ f.name # binaries[i].binary_file
            /\ f.name[1] = binaries[i].binary_file[1]
            /\ f.content # response.binary

\* C3: whenever an upload changes the checksum of a BinaryPackage row that
\* has a blob, the row's graph afterwards is the graph that upload carried
\* (the empty graph when it carried none): never a new checksum with the
\* graph of an earlier upload.
C3_UpsertAtomic ==
  [][\A i \in 1..Len(binaries) : \A j \in Successors(i) :
       (/\ binaries[i].binary_file # NoFile
        /\ binaries'[j].sha256 # binaries[i].sha256)
       => binaries'[j].dependency_graph = response'.graph]_vars

\* C4: an upload whose blob write failed leaves the BinaryPackage rows and
\* the storage exactly as they were before the call.
C4_BlobFailureLeavesRow ==
  [][response'.message = "storage error"
     => (binaries' = binaries /\ storage' = storage)]_vars

ReferentialIntegrity ==
  /\ \A i \in 1..Len(binaries) :
       VersionExists(binaries[i].package_version[1], binaries[i].package_version[2])
  /\ \A v \in versions : PackageExists(v.package)
  /\ \A d \in dependencies :
       /\ VersionExists(d.package_version[1], d.package_version[2])
       /\ PackageExists(d.requires_package)

\* C5: every BinaryPackage belongs to an existing PackageVersion, every
\* PackageVersion to an existing Package and every Dependency to both;
\* after Package.delete() no version, binary or dependency of the package
\* is left, after PackageVersion.delete() no binary of the version.
C5_CascadeComplete ==
  /\ []ReferentialIntegrity
  /\ [][/\ (response'.op = "delete_package"
            => /\ \A p \in packages' : p.name # response'.package
               /\ \A v \in versions' : v.package # response'.package
               /\ \A j \in 1..Len(binaries') :
                    binaries'[j].package_version[1] # response'.package
               /\ \A d \in dependencies' :
                    d.package_version[1] # response'.package)
         /\ (response'.op = "delete_version"
            => /\ \A v \in versions' :
                    <<v.package, v.version>> # <<response'.package, response'.version>>
               /\ \A j \in 1..Len(binaries') :
                    binaries'[j].package_version
                      # <<response'.package, response'.version>>)]_vars

\* a Package was deleted together with a version, a binary and a dependency
C5_Witness ==
  /\ response.op = "delete_package"
  /\ response.deleted[2] > 0
  /\ response.deleted[3] > 0
  /\ response.deleted[4] > 0

\* C6: a step that removes a BinaryPackage row leaves neither its binary
\* file nor its crate file in the storage, and a step that removes a
\* PackageVersion row does not leave its recipe file there.
C6_DeleteRemovesBlobs ==
  [][/\ \A i \in 1..Len(binaries) :
          (Successors(i) = {}
           => /\ binaries[i].binary_file \notin StoredNames(storage')
              /\ binaries[i].rust_crate_file \notin StoredNames(storage'))
     /\ \A v \in versions :
          ((\A w \in versions' : <<w.package, w.version>> # <<v.package, v.version>>)
           => v.recipe_file \notin StoredNames(storage'))]_vars

\* nodes of a graph other than the root, in stored order
NonRootNodes(graph) ==
  LET NonRoot(node) == node.id # "0" IN SelectSeq(graph.nodes, NonRoot)

\* a node with a "name/version" reference and a binary id
WellFormed(node) ==
  Contains(node.ref, "/") /\ node.package_id \notin {Absent, ""}

IsPrefix(s, t) == Len(s) <= Len(t) /\ SubSeq(t, 1, Len(s)) = s

\* short is ref, or ref up to and without its first "#"
CutAtRevision(short, ref) ==
  /\ ~Contains(short, "#")
  /\ short = ref \/ IsPrefix(short \o <<"#">>, ref)

\* C7: flattening a graph whose nodes other than the root are all
\* well-formed yields one result per such node, in the stored order and
\* without deduplication, with the node's binary id, the name before the
\* first "/" and the version cut at the first "#".
C7_FlattenWellFormed ==
  (/\ response.op \in {"replay", "extract"}
   /\ \A i \in 1..Len(response.graph.nodes) :
        (response.graph.nodes[i].id # "0"
         => WellFormed(response.graph.nodes[i])))
  => LET nodes == NonRootNodes(response.graph)
         result == response.result
     IN  /\ Len(result) = Len(nodes)
         /\ \A k \in 1..Len(nodes) :
              IF response.op = "replay"
              THEN /\ result[k][3] = nodes[k].package_id
                   /\ ~Contains(result[k][1], "/")
                   /\ IsPrefix(result[k][1] \o <<"/">>, nodes[k].ref)
                   /\ CutAtRevision(result[k][2],
                                    SubSeq(nodes[k].ref, Len(result[k][1]) + 2,
                                           Len(nodes[k].ref)))
              ELSE /\ result[k][2] = nodes[k].package_id
                   /\ CutAtRevision(result[k][1], nodes[k].ref)

\* two well-formed nodes with revisions and the same binary id went through
C7_Witness ==
  /\ response.op = "replay"
  /\ Len(response.graph.nodes) = 2
  /\ \A i \in 1..2 : /\ response.graph.nodes[i].id # "0"
                      /\ WellFormed(response.graph.nodes[i])
                      /\ Contains(response.graph.nodes[i].ref, "#")
  /\ response.graph.nodes[1].package_id = response.graph.nodes[2].package_id
  /\ response.graph.nodes[1].ref # response.graph.nodes[2].ref
  /\ Len(response.result) = 2

\* the binary a bundle answer is about: the newest row of the requested
\* version whose five settings are the requested platform
RequestedBinaries ==
  {i \in 1..Len(binaries) :
     /\ binaries[i].package_version = <<response.package, response.version>>
     /\ <<binaries[i].os, binaries[i].arch, binaries[i].compiler,
          binaries[i].compiler_version, binaries[i].build_type>>
        = <<response.platform.os, response.platform.arch,
            response.platform.compiler, response.platform.compiler_version,
            response.platform.build_type>>}

MatchedBinary ==
  binaries[CHOOSE i \in RequestedBinaries : \A j \in RequestedBinaries : j <= i]

\* C8: a plan has, besides the main entry, exactly one entry per well-formed
\* node of the matched binary's graph: a node without binary id or without
\* "/" in its reference gives no entry.
C8_MalformedOmitted ==
  (response.op \in {"preview", "bundle"} /\ response.status = 200)
  => LET Kept(node) == node.id # "0" /\ WellFormed(node)
     IN  Len(response.files)
           = 1 + Len(SelectSeq(MatchedBinary.dependency_graph.nodes, Kept))

InCatalog(package_id) ==
  \E i \in 1..Len(binaries) : binaries[i].package_id = package_id

\* sum of the file_size of the catalog rows of the entries from k on that
\* are not marked missing
RECURSIVE CatalogSize(_, _)
CatalogSize(files, k) ==
  IF k > Len(files) THEN 0
  ELSE (IF files[k].note = ""
        THEN LET row == CHOOSE i \in 1..Len(binaries) :
                          binaries[i].package_id = files[k].package_id
             IN  binaries[row].file_size
        ELSE 0) + CatalogSize(files, k + 1)

\* C9: when the matched binary's graph names a binary id the catalog does
\* not have, preview and bundle still answer 200 and the plan has an entry
\* with that id marked missing; preview's file_count is the number of
\* entries not marked missing and its total_size the sum of their sizes.
C9_MissingDependency ==
  (response.op \in {"preview", "bundle"} /\ RequestedBinaries # {})
  => /\ response.status = 200
     /\ \A n \in 1..Len(MatchedBinary.dependency_graph.nodes) :
          LET node == MatchedBinary.dependency_graph.nodes[n]
          IN  ((/\ node.id # "0"
                /\ WellFormed(node)
                /\ ~InCatalog(node.package_id))
               => \E k \in 2..Len(response.files) :
                    /\ response.files[k].package_id = node.package_id
                    /\ response.files[k].note # "")
     /\ \A k \in 1..Len(response.files) :
          (response.files[k].note = ""
           => InCatalog(response.files[k].package_id))
     /\ (response.op = "preview"
         => /\ response.file_count
                 = Cardinality({k \in 1..Len(response.files) :
                                  response.files[k].note = ""})
            /\ response.total_size = CatalogSize(response.files, 1))

\* a preview with a dependency that was found and one that is missing
C9_Witness ==
  /\ response.op = "preview"
  /\ response.status = 200
  /\ Len(response.files) = 3
  /\ response.file_count = 2
  /\ \E k \in 2..3 : response.files[k].note # ""
  /\ \E k \in 2..3 : response.files[k].note = "" /\ response.files[k].size > 0

C11_PlanDeduplicated ==
  (response.op \in {"preview", "bundle"} /\ response.status = 200)
  => /\ \A k, l \in 1..Len(response.files) :
          (response.files[k].package_id = response.files[l].package_id
           => k = l)
     /\ \A k, l \in 1..Len(response.archive) :
          (response.archive[k].package_id = response.archive[l].package_id
           => k = l)

\* C12: when the package and version exist and no binary matches the
\* requested platform, the 404 answer of preview and bundle lists every
\* binary of the version with its five settings.
C12_NoMatchDiagnostic ==
  (/\ response.op \in {"preview", "bundle"}
   /\ response.status = 404
   /\ VersionExists(response.package, response.version))
  => \A i \in 1..Len(binaries) :
       binaries[i].package_version = <<response.package, response.version>>
       => \E k \in 1..Len(response.binaries) :
            /\ response.binaries[k].package_id = binaries[i].package_id
            /\ response.binaries[k].os = binaries[i].os
            /\ response.binaries[k].compiler = binaries[i].compiler

\* C13: a preview request, whatever its answer, leaves every catalog row
\* (download counters included) and the storage as they were, and its
\* answer carries no content read from a binary file.
C13_PreviewReadOnly ==
  [][response'.op = "preview"
     => /\ catalog' = catalog
        /\ storage' = storage
        /\ response'.archive = <<>>]_vars

\* a preview that resolved a dependency whose binary file is in the storage
C13_Witness ==
  /\ response.op = "preview"
  /\ response.status = 200
  /\ \E k \in 2..Len(response.files) :
       /\ response.files[k].note = ""
       /\ \E i \in 1..Len(binaries) :
            /\ binaries[i].package_id = response.files[k].package_id
            /\ binaries[i].binary_file \in StoredNames(storage)

\* C14: a successful download_bundle request increments the download_count
\* of the main binary by exactly one.
C14_BundleCountsMain ==
  [][(response'.op = "bundle" /\ response'.status = 200)
     => \E i \in 1..Len(binaries) :
          /\ binaries[i].package_id = response'.files[1].package_id
          /\ binaries'[i].download_count = binaries[i].download_count + 1]_vars

\* C15: an ingest whose recipe file or binary file is absent or has no
\* bytes is answered 400 and leaves catalog and storage as they were.
C15_MissingPayload ==
  [][(/\ response'.op = "ingest"
      /\ \/ response'.recipe.text \in {Absent, ""}
         \/ response'.binary \in {Absent, ""})
     => /\ response'.status = 400
        /\ catalog' = catalog
        /\ storage' = storage]_vars

\* C16: an ingest changes the description or the license of an existing
\* Package only to a value its recipe declares; a field the recipe does
\* not declare keeps its value.
C16_MetadataKept ==
  [][response'.op = "ingest"
     => \A p \in packages : \A q \in packages' :
          q.name = p.name
          => /\ (q.description # p.description
                 => /\ response'.recipe.description # <<>>
                    /\ q.description = response'.recipe.description)
             /\ (q.license # p.license
                 => /\ response'.recipe.license # ""
                    /\ q.license = response'.recipe.license)]_vars

VersionKeyUnique ==
  \A v, w \in versions :
    (v.package = w.package /\ v.version = w.version) => v = w

\* C17: there is at most one PackageVersion row per (package, version); a
\* recipe upload or ingest for a version that exists, with its payloads
\* present, succeeds, and the row's recipe_content is afterwards the
\* recipe that request carried.
C17_VersionUpsert ==
  /\ []VersionKeyUnique
  /\ [][(/\ response'.op \in {"ingest", "upload_recipe"}
          /\ VersionExists(response'.package, response'.version)
          /\ response'.recipe.text # Absent
          /\ (response'.op = "ingest" => response'.binary # Absent))
        => /\ response'.status = 200
           /\ \A v \in versions' :
                (v.package = response'.package /\ v.version = response'.version)
                => v.recipe_content = response'.recipe.text]_vars

\* the checksum, size and graph of the row are those of one upload, and
\* so is the content of the file the row refers to
FromOneIngest(row) ==
  \E u \in RaceUploads :
    /\ row.sha256 = sha256[u[1]]
    /\ row.file_size = file_size[u[1]]
    /\ row.dependency_graph = u[2]
    /\ (row.binary_file # NoFile
        => [name |-> row.binary_file, content |-> u[1]] \in storage)

AllIdle == \A w \in Workers : inflight[w].pc = "idle"

\* C18: under unified uploads of one package_id that run side by side,
\* there is never a second row for the package_id, the row's file,
\* checksum, size and graph always come from one and the same upload, the
\* upload whose save() ran last gives the row its values, and once an
\* upload has succeeded and no request is in flight the row has a file
\* that the storage holds.
C18_IngestsSerialize ==
  /\ [](/\ PackageIdUnique
        /\ \A i \in 1..Len(binaries) : FromOneIngest(binaries[i])
        /\ ((AllIdle /\ response.op = "ingest" /\ response.status = 200)
            => /\ Len(binaries) = 1
               /\ binaries[1].binary_file \in StoredNames(storage)))
  /\ [][\A w \in Workers :
          (inflight[w].pc = "ingest_save" /\ inflight'[w].pc = "idle")
          => \A i \in 1..Len(binaries') :
               /\ binaries'[i].sha256 = sha256[inflight[w].content]
               /\ binaries'[i].dependency_graph = inflight[w].graph
               /\ [name |-> binaries'[i].binary_file,
                   content |-> inflight[w].content] \in storage']_vars

\* two uploads with different bytes overlapped: the one that stored its
\* file first saved its row last
C18_Witness ==
  /\ AllIdle
  /\ response.op = "ingest"
  /\ response.status = 200
  /\ Len(binaries) = 1
  /\ binaries[1].binary_file[2] = 0
  /\ \E f, g \in storage : f.name[2] = 1 /\ g.name[2] = 0 /\ f.content # g.content

RECURSIVE SumServed(_)
SumServed(workers) ==
  IF workers = {} THEN 0
  ELSE LET w == CHOOSE x \in workers : TRUE
       IN  inflight[w].served + SumServed(workers \ {w})

\* C19: once N direct downloads of a binary have been served and none is
\* in flight, the download_count of the binary and of its package are N.
C19_DownloadsCounted ==
  AllIdle
  => /\ \A i \in 1..Len(binaries) :
          binaries[i].download_count = SumServed(Workers)
     /\ \A p \in packages : p.download_count = SumServed(Workers)

\* C20: no step lowers the download_count of a Package.
C20_CountMonotone ==
  [][\A p \in packages : \A q \in packages' :
       q.name = p.name => q.download_count >= p.download_count]_vars

\* the request that r answers names a package or version the catalog does
\* not have, or (a direct download) a binary the version does not have
NamesMissing(r) ==
  \/ ~PackageExists(r.package)
  \/ ~VersionExists(r.package, r.version)
  \/ /\ r.op = "download"
     /\ BinaryIndexes(binaries, <<r.package, r.version>>, r.package_id) = {}

\* C21: a bundle preview, bundle download, direct download, protocol binary
\* upload or recipe manifest request that names a package, version or
\* binary the catalog does not have is answered 404 and leaves the catalog
\* and the storage as they were.
C21_NotFound ==
  [][(/\ response'.op \in {"preview", "bundle", "download", "upload_binary",
                           "recipe_manifest"}
      /\ NamesMissing(response'))
     => /\ response'.status = 404
        /\ catalog' = catalog
        /\ storage' = storage]_vars

\* a letter and its other case
CasePairs ==
  {<<"a", "A">>, <<"b", "B">>, <<"c", "C">>, <<"d", "D">>, <<"e", "E">>,
   <<"h", "H">>, <<"l", "L">>, <<"n", "N">>, <<"o", "O">>, <<"p", "P">>,
   <<"r", "R">>, <<"s", "S">>, <<"t", "T">>, <<"v", "V">>}

SameLetter(a, b) == a = b \/ <<a, b>> \in CasePairs \/ <<b, a>> \in CasePairs

\* version contains one of the six markers, in any mix of cases
HasMarker(version) ==
  \E marker \in {<<"-", "r", "c">>, <<"-", "b", "e", "t", "a">>,
                 <<"-", "a", "l", "p", "h", "a">>, <<"-", "d", "e", "v">>,
                 <<"-", "p", "r", "e">>,
                 <<"-", "s", "n", "a", "p", "s", "h", "o", "t">>} :
    \E i \in 1..Len(version) :
      /\ i + Len(marker) - 1 <= Len(version)
      /\ \A k \in 1..Len(marker) : SameLetter(version[i + k - 1], marker[k])

\* the version of a "name/version" reference
VersionOf(package_ref) ==
  SubSeq(package_ref, (CHOOSE i \in 1..Len(package_ref) :
                         /\ package_ref[i] = "/"
                         /\ \A j \in 1..(i - 1) : package_ref[j] # "/") + 1,
         Len(package_ref))

PlanHasPreRelease(plan) ==
  \E k \in 1..Len(plan) : HasMarker(VersionOf(plan[k][1]))

\* C22: cmd_upload holds a package of its plan to be a pre-release exactly
\* when its version contains, in any case, one of -rc, -beta, -alpha, -dev,
\* -pre, -snapshot; when the plan (the package and the selected
\* dependencies) has such a package, cmd_upload returns 1 without having
\* sent a request: no step of the tool changes the catalog, the storage or
\* the last server answer.
C22_ReleaseOnly ==
  /\ [](cli.pc # "idle"
        => /\ \A k \in 1..Len(cli.packages_to_upload) :
                (\E j \in 1..Len(cli.non_release_packages) :
                   cli.non_release_packages[j] = cli.packages_to_upload[k][1])
                <=> HasMarker(VersionOf(cli.packages_to_upload[k][1]))
           /\ (PlanHasPreRelease(cli.packages_to_upload)
               => /\ cli.pc = "done"
                  /\ cli.result = 1
                  /\ cli.existing_packages = <<>>
                  /\ cli.missing_packages = <<>>
                  /\ cli.uploaded_count = 0))
  /\ [][(cli' # cli /\ PlanHasPreRelease(cli'.packages_to_upload))
        => /\ catalog' = catalog
           /\ storage' = storage
           /\ response' = response]_vars

\* an upload with dependencies of a release whose graph names a pre-release
\* written in upper case, refused while the server holds binaries
C22_Witness ==
  /\ cli.pc = "done"
  /\ cli.result = 1
  /\ Len(cli.packages_to_upload) = 3
  /\ cli.non_release_packages = <<(<<"z", "/", "1", "-", "R", "c">>)>>
  /\ Len(binaries) > 0

\* the catalog rows with this package_id under this package and version
RowsOf(entry) ==
  {i \in 1..Len(binaries) :
     /\ binaries[i].package_id = entry.package_id
     /\ binaries[i].package_version[1] = entry.package
     /\ binaries[i].package_version[2] = entry.version}

SameRequest(r, q) ==
  r.package = q.package /\ r.version = q.version /\ r.platform = q.platform

\* C24: a preview and a bundle of the same request on the same catalog
\* either both answer 404, or both answer 200 and the manifest of the
\* bundle lists the entries of the preview in the same order with the same
\* package, version, type, package_id and the same marking as missing.
C24_PreviewIsBundlePlan ==
  [][(/\ response.op \in {"preview", "bundle"}
      /\ response'.op \in {"preview", "bundle"}
      /\ response'.op # response.op
      /\ SameRequest(response, response')
      /\ catalog' = catalog)
     => /\ response'.status = response.status
        /\ Len(response'.files) = Len(response.files)
        /\ \A k \in 1..Len(response.files) :
             /\ response'.files[k].package = response.files[k].package
             /\ response'.files[k].version = response.files[k].version
             /\ response'.files[k].type = response.files[k].type
             /\ response'.files[k].package_id = response.files[k].package_id
             /\ (response'.files[k].note = "" <=> response.files[k].note = "")]_vars

\* a manifest with the main binary, a dependency of the catalog and two
\* that are missing
C24_Witness ==
  /\ response.op = "bundle"
  /\ response.status = 200
  /\ Len(response.files) = 4
  /\ Len(response.archive) = 2
  /\ response.files[3].note # ""

\* C25: a unified upload that is answered with an error has created or
\* changed no Package, PackageVersion, BinaryPackage or Dependency row and
\* no stored file.
C25_IngestAllOrNothing ==
  [][(response'.op = "ingest" /\ response'.status >= 400)
     => (catalog' = catalog /\ storage' = storage)]_vars

\* a worker goes on in download_binary
DownloadStep ==
  \E w \in Workers :
    /\ inflight[w].pc \in {"download_binary", "download_package"}
    /\ inflight'[w] # inflight[w]

\* C26: a step of download_binary changes nothing of a BinaryPackage or
\* Package row but its download_count: checksum, size, file, graph,
\* description and license stay what the last upload made them.
C26_DownloadWritesCountersOnly ==
  [][DownloadStep
     => /\ Len(binaries') = Len(binaries)
        /\ \A i \in 1..Len(binaries) :
             [binaries'[i] EXCEPT !.download_count = 0]
               = [binaries[i] EXCEPT !.download_count = 0]
        /\ \A p \in packages : \E q \in packages' :
             [q EXCEPT !.download_count = 0] = [p EXCEPT !.download_count = 0]]_vars

\* C27: a protocol binary upload without a file is answered with an error
\* and creates no BinaryPackage row: catalog and storage stay as they were.
C27_NoFileNoRow ==
  [][(response'.op = "upload_binary" /\ response'.binary = Absent)
     => /\ response'.status >= 400
        /\ catalog' = catalog
        /\ storage' = storage]_vars

\* C28: a unified upload without package_id for a version that exists
\* succeeds, whatever other versions hold binaries of the same five
\* settings, and afterwards its own PackageVersion has a BinaryPackage row
\* with the checksum of the uploaded bytes.
C28_FallbackIdPerVersion ==
  [][(/\ response'.op = "ingest"
      /\ response'.package_id \notin PackageIds
      /\ VersionExists(response'.package, response'.version))
     => /\ response'.status = 200
        /\ \E i \in 1..Len(binaries') :
             /\ binaries'[i].package_version
                  = <<response'.package, response'.version>>
             /\ binaries'[i].sha256 = sha256[response'.binary]]_vars

\* the rows of bins that do not belong to the package, in their order
BinariesOfOthers(bins, name) ==
  LET Other(b) == b.package_version[1] # name IN SelectSeq(bins, Other)

\* C29: Package.delete() of P leaves every other Package, every
\* PackageVersion and BinaryPackage of other packages and every Topic as
\* they were; a Topic loses only its association with P, and the only
\* Dependency rows of other versions that go are those that require P.
C29_DeleteFrame ==
  [][response'.op = "delete_package"
     => LET P == response'.package
        IN  /\ packages' = {p \in packages : p.name # P}
            /\ versions' = {v \in versions : v.package # P}
            /\ binaries' = BinariesOfOthers(binaries, P)
            /\ dependencies' \subseteq dependencies
            /\ \A d \in dependencies \ dependencies' :
                 d.package_version[1] = P \/ d.requires_package = P
            /\ Cardinality(topics') = Cardinality(topics)
            /\ \A t \in topics : \E u \in topics' :
                 /\ u.name = t.name
                 /\ u.slug = t.slug
                 /\ u.packages = t.packages \ {P}]_vars

\* a Package with a topic was deleted while another package with a version,
\* a binary and the same topic stays, and a requirement on it went along
C29_Witness ==
  /\ response.op = "delete_package"
  /\ response.deleted[4] > 0
  /\ response.deleted[3] > 0
  /\ dependencies = {}
  /\ Len(binaries) = 1
  /\ \E t \in topics : t.packages # {}
  /\ Cardinality(topics) = 2

\* the catalog has a BinaryPackage for the answer's package, version and
\* package_id whose binary file the storage holds
HoldsDownloadable(r) ==
  \E i \in 1..Len(binaries) :
    /\ binaries[i].package_version = <<r.package, r.version>>
    /\ binaries[i].package_id = r.package_id
    /\ binaries[i].binary_file \in StoredNames(storage)

\* C30: check_package_exists answers true exactly when the server holds a
\* downloadable binary for the name, version and package_id, and the check
\* changes no catalog row, download counters included, and no stored file.
C30_ExistenceCheckReadOnly ==
  [][response'.op = "check_package_exists"
     => /\ (response'.result <=> HoldsDownloadable(response'))
        /\ catalog' = catalog
        /\ storage' = storage]_vars

====
